---- MODULE Spec2Model ----
(***************************************************************************)
(* Model of the audio Buffer of pkg/util/audio/buffer.go: one Buffer, the  *)
(* caller that drives Start and Close on it, and the background goroutine  *)
(* that Start launches to wait for the network-buffer port and start the   *)
(* recorder pipeline.                                                      *)
(*                                                                         *)
(* gst.Pipeline and pa.DeviceManager are collaborators whose code is not   *)
(* part of the sources at hand; their operations are modelled from their   *)
(* documented contract (Pipeline*, DeviceManager* below).                  *)
(*                                                                         *)
(* Every blocking call of Start and Close is one step of the caller, so    *)
(* that the goroutine interleaves with them as it does in the program.     *)
(* `trace` is a history variable: the calls the caller's Start and Close   *)
(* make on the collaborators, and their returns, in program order.         *)
(***************************************************************************)
EXTENDS Integers, Sequences, FiniteSets, TLC

VARIABLES
    pbkPipeline,    \* Buffer.pbkPipeline: Nil or a pipeline record
    bufPipeline,    \* Buffer.bufPipeline
    recPipeline,    \* Buffer.recPipeline
    closed,         \* Buffer.closed
    deviceManager,  \* the devices provisioned by Buffer.deviceManager
    pc,             \* where the caller of Start/Close stands
    startResult,    \* what the last Start returned
    closeResult,    \* what the last Close returned
    tasks,          \* the goroutines launched by Start, by number of the Start
    nStart,         \* number of Start calls made
    nClose,         \* number of Close calls made
    trace,          \* history of the calls made by Start and Close
    codec,          \* the codec the caller passes to Start
    channels,       \* Buffer.channels
    sampleRate,     \* Buffer.sampleRate
    pbkStages,      \* the stages of the playback pipeline as built
    warnings,       \* warnings logged by buildPlaybackPipeline
    exits,          \* the error each pipeline process exits with
    captured,       \* the error each pipeline has captured
    waitResult,     \* what the last Buffer.Wait did and returned
    errorsResult,   \* what the last Buffer.Errors returned
    wsPc,           \* the websocket status loop: "off", "loop", "done"
    desktop,        \* the desktop session the status loop looks up
    apiErrs,        \* lookups of the loop that failed with an API error
    wsWrites,       \* the messages written on the last tick of the loop
    wsEnd           \* why the status loop ended

bufVars == <<pbkPipeline, bufPipeline, recPipeline, closed, deviceManager, pc,
             startResult, closeResult, tasks, nStart, nClose, trace>>

cfgVars == <<codec, channels, sampleRate, pbkStages, warnings>>

obsVars == <<exits, captured, waitResult, errorsResult>>

wsVars == <<wsPc, desktop, apiErrs, wsWrites, wsEnd>>

vars == <<bufVars, cfgVars, obsVars, wsVars>>

(***************************************************************************)
(* Bounds of the model.                                                    *)
(***************************************************************************)
MaxStarts == 2      \* Start calls explored by SpecRestart
MaxCloses == 3      \* Close calls explored
MaxChecks == 6      \* unsuccessful polls counted before the count saturates
MaxApiErrors == 2   \* desktop lookups that fail with an API error

(***************************************************************************)
(* Program constants.                                                      *)
(***************************************************************************)
Retries == 5        \* waitForProcPort(..., 5, 1)
Interval == 1
Port == 9004

(***************************************************************************)
(* gst.Pipeline: a process chain with a started/running process and a      *)
(* closed flag.  gen tells the pipelines of successive Starts apart and    *)
(* stands for the process id.                                              *)
(***************************************************************************)
NewPipeline(g) ==
    [nil |-> FALSE, gen |-> g, started |-> FALSE, running |-> FALSE,
     closed |-> FALSE]

\* The nil *gst.Pipeline of a Buffer whose pipelines were never built.
Nil ==
    [nil |-> TRUE, gen |-> 0, started |-> FALSE, running |-> FALSE,
     closed |-> FALSE]

\* Pipeline.Start: spawns the process, or fails and spawns nothing.
PipelineStart(p, ok) ==
    IF ok THEN [p EXCEPT !.started = TRUE, !.running = TRUE] ELSE p

\* Pipeline.Close fails only on a pipeline that is not closed yet.
PipelineCloseFails(p, ok) == ~p.closed /\ ~ok

\* Pipeline.Close: idempotent; terminates the process and marks it closed.
PipelineClose(p, ok) ==
    IF p.closed \/ ~ok THEN p
    ELSE [p EXCEPT !.running = FALSE, !.closed = TRUE]

\* Pipeline.IsClosed on a non-nil pipeline.
PipelineIsClosed(p) == p.closed

\* Pipeline.Pid
PipelinePid(p) == p.gen

(***************************************************************************)
(* pa.DeviceManager: the provisioned devices.                              *)
(***************************************************************************)
NewDeviceManager == [sink |-> FALSE, source |-> FALSE, defaultSource |-> FALSE]

DeviceManagerAddSink(dm, ok) == IF ok THEN [dm EXCEPT !.sink = TRUE] ELSE dm

DeviceManagerAddSource(dm, ok) == IF ok THEN [dm EXCEPT !.source = TRUE] ELSE dm

\* SetDefaultSource fails if the source was never provisioned.
DeviceManagerSetDefaultSource(dm, ok) ==
    IF ok /\ dm.source THEN [dm EXCEPT !.defaultSource = TRUE] ELSE dm

DeviceManagerDestroy(dm) == NewDeviceManager

(***************************************************************************)
(* The goroutine of Start.                                                 *)
(*   pc:      "none" not launched, "begin", "poll", "rec_start", "done"    *)
(*   pid:     the process id waitForProcPort was called with               *)
(*   tries:   the local variable tries of waitForProcPort                  *)
(*   checks:  polls that did not find the port (history, saturating)       *)
(*   sawPort: a poll found the port (history)                              *)
(*   err:     the error the goroutine logged                               *)
(***************************************************************************)
NoTask ==
    [pc |-> "none", pid |-> 0, tries |-> 0, checks |-> 0,
     sawPort |-> FALSE, err |-> "none"]

TaskIds == 1..MaxStarts

Log(es) == trace' = trace \o es

(***************************************************************************)
(* Codecs, and the stage builders of gst.Pipeline: each appends one stage  *)
(* descriptor to the pipeline.                                             *)
(***************************************************************************)
CodecOpus == "opus"
CodecVorbis == "vorbis"
CodecMP3 == "mp3"
CodecRaw == "raw"

\* The codec values the caller may pass: the four named ones, the empty
\* string and a name that is none of them.
Codecs == {CodecOpus, CodecVorbis, CodecMP3, CodecRaw, "", "aac"}

DefaultChannels == 2
DefaultSampleRate == 24000

ChannelValues == {1, 2}
SampleRateValues == {24000, 48000}

WithPulseSrc(p, device, ch, rate) == Append(p, <<"pulsesrc", device, ch, rate>>)
WithVorbisEncode(p) == Append(p, <<"vorbisenc">>)
WithOggMux(p) == Append(p, <<"oggmux">>)
WithCutter(p) == Append(p, <<"cutter">>)
WithOpusEncode(p) == Append(p, <<"opusenc">>)
WithWebmMux(p) == Append(p, <<"webmmux">>)
WithLameEncode(p) == Append(p, <<"lamemp3enc">>)
WithFdSink(p, fd) == Append(p, <<"fdsink", fd>>)

(***************************************************************************)
(* Buffer.buildPlaybackPipeline: the stages of the playback pipeline for a *)
(* codec, and the number of warnings logged while building it.             *)
(***************************************************************************)
buildPlaybackPipeline_SilentDefault(c, ch, rate) ==
    LET src == WithPulseSrc(<<>>, "kvdi.monitor", ch, rate)
        enc == IF c = CodecVorbis THEN WithOggMux(WithVorbisEncode(src))
               ELSE IF c = CodecMP3 THEN WithLameEncode(src)
               ELSE WithWebmMux(WithOpusEncode(WithCutter(src)))
    IN  [stages |-> WithFdSink(enc, 1), warnings |-> 0]

buildPlaybackPipeline(c, ch, rate) ==
    LET src == WithPulseSrc(<<>>, "kvdi.monitor", ch, rate)
    IN  IF c = CodecVorbis
        THEN [stages   |-> WithFdSink(WithOggMux(WithVorbisEncode(src)), 1),
              warnings |-> 0]
        ELSE IF c = CodecOpus
        THEN [stages   |-> WithFdSink(
                               WithWebmMux(WithOpusEncode(WithCutter(src))), 1),
              warnings |-> 0]
        ELSE IF c = CodecMP3
        THEN [stages   |-> WithFdSink(WithLameEncode(src), 1),
              warnings |-> 0]
        ELSE [stages   |-> WithFdSink(
                               WithWebmMux(WithOpusEncode(WithCutter(src))), 1),
              warnings |-> 1]

(***************************************************************************)
(* Values of the observers before they are used.                           *)
(***************************************************************************)
NoErrors == [pbk |-> "nil", buf |-> "nil", rec |-> "nil"]

NoWait == [called |-> FALSE, waited |-> <<>>, isNil |-> TRUE, msg |-> <<>>]

NoErrorsCall == [called |-> FALSE, isNil |-> TRUE, errs |-> <<>>]

\* NewBuffer: no pipelines, no devices, 2 channels, 24000 Hz.
InitBuffer ==
    /\ pbkPipeline = Nil
    /\ bufPipeline = Nil
    /\ recPipeline = Nil
    /\ closed = FALSE
    /\ deviceManager = NewDeviceManager
    /\ pc = "idle"
    /\ startResult = "none"
    /\ closeResult = "none"
    /\ tasks = [i \in TaskIds |-> NoTask]
    /\ nStart = 0
    /\ nClose = 0
    /\ trace = <<>>
    /\ channels = DefaultChannels
    /\ sampleRate = DefaultSampleRate
    /\ pbkStages = <<>>
    /\ warnings = 0

\* No Wait or Errors call is made.
InitNoObserver ==
    /\ exits = NoErrors
    /\ captured = NoErrors
    /\ waitResult = NoWait
    /\ errorsResult = NoErrorsCall

\* No websocket status loop runs.
InitNoWebsocket ==
    /\ wsPc = "off"
    /\ desktop = [exists |-> TRUE, running |-> FALSE, podPhase |-> ""]
    /\ apiErrs = 0
    /\ wsWrites = <<>>
    /\ wsEnd = "none"

\* A new Buffer whose caller will pass opus to Start.
Init ==
    /\ InitBuffer
    /\ codec = CodecOpus
    /\ InitNoObserver
    /\ InitNoWebsocket

(***************************************************************************)
(* Buffer.setupDevices: add the sink, add the source, set the default      *)
(* source; the first failure is returned and ends the provisioning.        *)
(* o tells which of the three device calls succeed.                        *)
(***************************************************************************)
setupDevices_NoAbort(dm, o) ==
    LET d1 == DeviceManagerAddSink(dm, o.sink)
        d2 == DeviceManagerAddSource(d1, o.source)
        d3 == DeviceManagerSetDefaultSource(d2, o.def)
    IN  [dm  |-> d3,
         ev  |-> <<IF o.sink THEN "AddSink" ELSE "AddSink!",
                   IF o.source THEN "AddSource" ELSE "AddSource!",
                   IF o.def THEN "SetDefaultSource" ELSE "SetDefaultSource!">>,
         err |-> IF o.sink /\ o.source /\ o.def THEN "nil"
                 ELSE IF ~o.sink THEN "errSink"
                 ELSE IF ~o.source THEN "errSource" ELSE "errDefault"]

setupDevices(dm, o) ==
    LET d1 == DeviceManagerAddSink(dm, o.sink)
        d2 == DeviceManagerAddSource(d1, o.source)
        d3 == DeviceManagerSetDefaultSource(d2, o.def)
    IN  IF ~o.sink
        THEN [dm |-> d1, ev |-> <<"AddSink!">>, err |-> "errSink"]
        ELSE IF ~o.source
        THEN [dm |-> d2, ev |-> <<"AddSink", "AddSource!">>, err |-> "errSource"]
        ELSE IF ~o.def
        THEN [dm |-> d3, ev |-> <<"AddSink", "AddSource", "SetDefaultSource!">>,
              err |-> "errDefault"]
        ELSE [dm |-> d3, ev |-> <<"AddSink", "AddSource", "SetDefaultSource">>,
              err |-> "nil"]

Outcomes == [sink : BOOLEAN, source : BOOLEAN, def : BOOLEAN]

(***************************************************************************)
(* Buffer.Start, first step: the call and setupDevices.  A provisioning    *)
(* error is returned at once.                                              *)
(***************************************************************************)
Start_setup ==
    /\ pc = "idle"
    /\ \E o \in Outcomes :
         LET r == setupDevices(deviceManager, o)
         IN  /\ deviceManager' = r.dm
             /\ nStart' = nStart + 1
             /\ IF r.err # "nil"
                THEN /\ pc' = "idle"
                     /\ startResult' = r.err
                     /\ Log(<<"Start">> \o r.ev \o <<"Start:err">>)
                ELSE /\ pc' = "start_build"
                     /\ startResult' = "none"
                     /\ Log(<<"Start">> \o r.ev)
    /\ UNCHANGED <<pbkPipeline, bufPipeline, recPipeline, closed, closeResult,
                   tasks, nClose>>
    /\ UNCHANGED <<cfgVars, obsVars, wsVars>>

\* Start on a new Buffer.
Start_setupDevices ==
    /\ nStart = 0
    /\ Start_setup

\* Start on a Buffer that was started before.
Restart_setupDevices ==
    /\ nStart >= 1
    /\ nStart < MaxStarts
    /\ Start_setup

\* Start, lines 159-160: the three pipelines are built, the playback
\* pipeline for the codec and the configuration; none is started.
Start_build ==
    /\ pc = "start_build"
    /\ pbkPipeline' = NewPipeline(nStart)
    /\ bufPipeline' = NewPipeline(nStart)
    /\ recPipeline' = NewPipeline(nStart)
    /\ pc' = "start_pbk"
    /\ pbkStages' = buildPlaybackPipeline(codec, channels, sampleRate).stages
    /\ warnings' = warnings
                    + buildPlaybackPipeline(codec, channels, sampleRate).warnings
    /\ Log(<<"build">>)
    /\ UNCHANGED <<closed, deviceManager, startResult, closeResult, tasks,
                   nStart, nClose>>
    /\ UNCHANGED <<codec, channels, sampleRate, obsVars, wsVars>>

\* Start, lines 163-165: start the playback pipeline or return its error.
Start_pbk_IgnoreErr ==
    /\ pc = "start_pbk"
    /\ \E ok \in BOOLEAN :
         /\ pbkPipeline' = PipelineStart(pbkPipeline, ok)
         /\ pc' = "start_buf"
         /\ Log(<<IF ok THEN "pbk.Start" ELSE "pbk.Start!">>)
    /\ UNCHANGED <<bufPipeline, recPipeline, closed, deviceManager, tasks,
                   startResult, closeResult, nStart, nClose>>
    /\ UNCHANGED <<cfgVars, obsVars, wsVars>>

Start_pbk ==
    /\ pc = "start_pbk"
    /\ \E ok \in BOOLEAN :
         /\ pbkPipeline' = PipelineStart(pbkPipeline, ok)
         /\ IF ok
            THEN /\ pc' = "start_buf"
                 /\ startResult' = startResult
                 /\ Log(<<"pbk.Start">>)
            ELSE /\ pc' = "idle"
                 /\ startResult' = "errPbk"
                 /\ Log(<<"pbk.Start!", "Start:err">>)
    /\ UNCHANGED <<bufPipeline, recPipeline, closed, deviceManager, tasks,
                   closeResult, nStart, nClose>>
    /\ UNCHANGED <<cfgVars, obsVars, wsVars>>

\* Start, lines 168-194: start the network-buffer pipeline or return its
\* error; then launch the goroutine and return nil.
Start_buf_GoAnyway ==
    /\ pc = "start_buf"
    /\ \E ok \in BOOLEAN :
         /\ bufPipeline' = PipelineStart(bufPipeline, ok)
         /\ pc' = "idle"
         /\ tasks' = [tasks EXCEPT ![nStart] = [NoTask EXCEPT !.pc = "begin"]]
         /\ IF ok
            THEN /\ startResult' = "nil"
                 /\ Log(<<"buf.Start", "go", "Start:nil">>)
            ELSE /\ startResult' = "errBuf"
                 /\ Log(<<"buf.Start!", "go", "Start:err">>)
    /\ UNCHANGED <<pbkPipeline, recPipeline, closed, deviceManager,
                   closeResult, nStart, nClose>>
    /\ UNCHANGED <<cfgVars, obsVars, wsVars>>

Start_buf ==
    /\ pc = "start_buf"
    /\ \E ok \in BOOLEAN :
         /\ bufPipeline' = PipelineStart(bufPipeline, ok)
         /\ pc' = "idle"
         /\ IF ok
            THEN /\ tasks' = [tasks EXCEPT ![nStart] = [NoTask EXCEPT !.pc = "begin"]]
                 /\ startResult' = "nil"
                 /\ Log(<<"buf.Start", "go", "Start:nil">>)
            ELSE /\ tasks' = tasks
                 /\ startResult' = "errBuf"
                 /\ Log(<<"buf.Start!", "Start:err">>)
    /\ UNCHANGED <<pbkPipeline, recPipeline, closed, deviceManager,
                   closeResult, nStart, nClose>>
    /\ UNCHANGED <<cfgVars, obsVars, wsVars>>

(***************************************************************************)
(* Buffer.IsClosed, line 247: pbk && rec && buf && a.closed, evaluated     *)
(* left to right.  A method of a nil pipeline dereferences nil: the        *)
(* program panics.                                                         *)
(***************************************************************************)
IsClosedPanics ==
    \/ pbkPipeline.nil
    \/ /\ PipelineIsClosed(pbkPipeline)
       /\ \/ recPipeline.nil
          \/ PipelineIsClosed(recPipeline) /\ bufPipeline.nil

IsClosed_NoFlag ==
    /\ PipelineIsClosed(pbkPipeline)
    /\ PipelineIsClosed(recPipeline)
    /\ PipelineIsClosed(bufPipeline)

IsClosed ==
    /\ PipelineIsClosed(pbkPipeline)
    /\ PipelineIsClosed(recPipeline)
    /\ PipelineIsClosed(bufPipeline)
    /\ closed

(***************************************************************************)
(* Buffer.Close, line 252: the call and the IsClosed guard.                *)
(***************************************************************************)
Close_IsClosed_NoGuard ==
    /\ pc = "idle"
    /\ nClose < MaxCloses
    /\ nClose' = nClose + 1
    /\ IF IsClosedPanics
       THEN /\ pc' = "panic"
            /\ closeResult' = "none"
            /\ Log(<<"Close", "panic">>)
       ELSE /\ pc' = "close_pbk"
            /\ closeResult' = "none"
            /\ Log(<<"Close">>)
    /\ UNCHANGED <<pbkPipeline, bufPipeline, recPipeline, closed,
                   deviceManager, startResult, tasks, nStart>>
    /\ UNCHANGED <<cfgVars, obsVars, wsVars>>

Close_IsClosed ==
    /\ pc = "idle"
    /\ nClose < MaxCloses
    /\ nClose' = nClose + 1
    /\ IF IsClosedPanics
       THEN /\ pc' = "panic"
            /\ closeResult' = "none"
            /\ Log(<<"Close", "panic">>)
       ELSE IF IsClosed
       THEN /\ pc' = "idle"
            /\ closeResult' = "nil"
            /\ Log(<<"Close", "Close:nil">>)
       ELSE /\ pc' = "close_pbk"
            /\ closeResult' = "none"
            /\ Log(<<"Close">>)
    /\ UNCHANGED <<pbkPipeline, bufPipeline, recPipeline, closed,
                   deviceManager, startResult, tasks, nStart>>
    /\ UNCHANGED <<cfgVars, obsVars, wsVars>>

\* Close, lines 253-255: close the playback pipeline or return its error.
Close_pbk_Continue ==
    /\ pc = "close_pbk"
    /\ \E ok \in BOOLEAN :
         /\ pbkPipeline' = PipelineClose(pbkPipeline, ok)
         /\ pc' = "close_buf"
         /\ Log(<<IF PipelineCloseFails(pbkPipeline, ok)
                  THEN "pbk.Close!" ELSE "pbk.Close">>)
    /\ UNCHANGED <<bufPipeline, recPipeline, closed, deviceManager,
                   startResult, closeResult, tasks, nStart, nClose>>
    /\ UNCHANGED <<cfgVars, obsVars, wsVars>>

Close_pbk ==
    /\ pc = "close_pbk"
    /\ \E ok \in BOOLEAN :
         /\ pbkPipeline' = PipelineClose(pbkPipeline, ok)
         /\ IF PipelineCloseFails(pbkPipeline, ok)
            THEN /\ pc' = "idle"
                 /\ closeResult' = "errPbk"
                 /\ Log(<<"pbk.Close!", "Close:err">>)
            ELSE /\ pc' = "close_buf"
                 /\ closeResult' = closeResult
                 /\ Log(<<"pbk.Close">>)
    /\ UNCHANGED <<bufPipeline, recPipeline, closed, deviceManager,
                   startResult, tasks, nStart, nClose>>
    /\ UNCHANGED <<cfgVars, obsVars, wsVars>>

\* Close, lines 256-258: close the network-buffer pipeline or return its error.
Close_buf ==
    /\ pc = "close_buf"
    /\ \E ok \in BOOLEAN :
         /\ bufPipeline' = PipelineClose(bufPipeline, ok)
         /\ IF PipelineCloseFails(bufPipeline, ok)
            THEN /\ pc' = "idle"
                 /\ closeResult' = "errBuf"
                 /\ Log(<<"buf.Close!", "Close:err">>)
            ELSE /\ pc' = "close_rec"
                 /\ closeResult' = closeResult
                 /\ Log(<<"buf.Close">>)
    /\ UNCHANGED <<pbkPipeline, recPipeline, closed, deviceManager,
                   startResult, tasks, nStart, nClose>>
    /\ UNCHANGED <<cfgVars, obsVars, wsVars>>

\* Close, lines 259-261: close the recorder pipeline or return its error.
Close_rec_Swallow ==
    /\ pc = "close_rec"
    /\ \E ok \in BOOLEAN :
         /\ recPipeline' = PipelineClose(recPipeline, ok)
         /\ pc' = "close_destroy"
         /\ Log(<<IF PipelineCloseFails(recPipeline, ok)
                  THEN "rec.Close!" ELSE "rec.Close">>)
    /\ UNCHANGED <<pbkPipeline, bufPipeline, closed, deviceManager,
                   startResult, closeResult, tasks, nStart, nClose>>
    /\ UNCHANGED <<cfgVars, obsVars, wsVars>>

Close_rec ==
    /\ pc = "close_rec"
    /\ \E ok \in BOOLEAN :
         /\ recPipeline' = PipelineClose(recPipeline, ok)
         /\ IF PipelineCloseFails(recPipeline, ok)
            THEN /\ pc' = "idle"
                 /\ closeResult' = "errRec"
                 /\ Log(<<"rec.Close!", "Close:err">>)
            ELSE /\ pc' = "close_destroy"
                 /\ closeResult' = closeResult
                 /\ Log(<<"rec.Close">>)
    /\ UNCHANGED <<pbkPipeline, bufPipeline, closed, deviceManager,
                   startResult, tasks, nStart, nClose>>
    /\ UNCHANGED <<cfgVars, obsVars, wsVars>>

\* Close, lines 262-265: destroy the devices, set the flag, return nil.
Close_destroy_NoFlag ==
    /\ pc = "close_destroy"
    /\ deviceManager' = DeviceManagerDestroy(deviceManager)
    /\ pc' = "idle"
    /\ closeResult' = "nil"
    /\ Log(<<"Destroy", "Close:nil">>)
    /\ UNCHANGED <<pbkPipeline, bufPipeline, recPipeline, closed, startResult,
                   tasks, nStart, nClose>>
    /\ UNCHANGED <<cfgVars, obsVars, wsVars>>

Close_destroy ==
    /\ pc = "close_destroy"
    /\ deviceManager' = DeviceManagerDestroy(deviceManager)
    /\ closed' = TRUE
    /\ pc' = "idle"
    /\ closeResult' = "nil"
    /\ Log(<<"Destroy", "Close:nil">>)
    /\ UNCHANGED <<pbkPipeline, bufPipeline, recPipeline, startResult, tasks,
                   nStart, nClose>>
    /\ UNCHANGED <<cfgVars, obsVars, wsVars>>

(***************************************************************************)
(* The goroutine of Start, lines 174-192.                                  *)
(***************************************************************************)
\* line 176 and lines 128-130: the call of waitForProcPort with the process
\* id of the network-buffer pipeline; tries starts at 0.
Task_begin(i) ==
    /\ pc # "panic"
    /\ tasks[i].pc = "begin"
    /\ tasks' = [tasks EXCEPT ![i].pc = "poll",
                              ![i].pid = PipelinePid(bufPipeline),
                              ![i].tries = 0]
    /\ UNCHANGED <<pbkPipeline, bufPipeline, recPipeline, closed,
                   deviceManager, pc, startResult, closeResult, nStart,
                   nClose, trace>>
    /\ UNCHANGED <<cfgVars, obsVars, wsVars>>

PollOutcomes == {"openErr", "readErr", "closeErr", "found", "notfound"}

Min(a, b) == IF a < b THEN a ELSE b

\* One tick of the loop of waitForProcPort, lines 131-149, and what the
\* goroutine does with its result, lines 176-179.  r is what the read of
\* the connection table gives.  tries is compared with retries and never
\* incremented.
waitForProcPort_KeepPolling(t, r) ==
    IF r \in {"openErr", "readErr", "closeErr"}
    THEN [t EXCEPT !.err = r]
    ELSE IF r = "found"
    THEN [t EXCEPT !.pc = "rec_start", !.sawPort = TRUE]
    ELSE IF t.tries = Retries
    THEN [t EXCEPT !.pc = "done", !.err = "retryLimit",
                   !.checks = Min(t.checks + 1, MaxChecks)]
    ELSE [t EXCEPT !.checks = Min(t.checks + 1, MaxChecks)]

waitForProcPort(t, r) ==
    IF r \in {"openErr", "readErr", "closeErr"}
    THEN [t EXCEPT !.pc = "done", !.err = r]
    ELSE IF r = "found"
    THEN [t EXCEPT !.pc = "rec_start", !.sawPort = TRUE]
    ELSE IF t.tries = Retries
    THEN [t EXCEPT !.pc = "done", !.err = "retryLimit",
                   !.checks = Min(t.checks + 1, MaxChecks)]
    ELSE [t EXCEPT !.checks = Min(t.checks + 1, MaxChecks)]

Task_poll(i) ==
    /\ pc # "panic"
    /\ tasks[i].pc = "poll"
    /\ \E r \in PollOutcomes :
         tasks' = [tasks EXCEPT ![i] = waitForProcPort(tasks[i], r)]
    /\ UNCHANGED <<pbkPipeline, bufPipeline, recPipeline, closed,
                   deviceManager, pc, startResult, closeResult, nStart,
                   nClose, trace>>
    /\ UNCHANGED <<cfgVars, obsVars, wsVars>>

\* lines 180-183: start the recorder pipeline; an error is only logged.
Task_recStart_CloseOnErr(i) ==
    /\ pc # "panic"
    /\ tasks[i].pc = "rec_start"
    /\ \E ok \in BOOLEAN :
         /\ recPipeline' = PipelineStart(recPipeline, ok)
         /\ bufPipeline' = IF ok THEN bufPipeline
                           ELSE PipelineClose(bufPipeline, TRUE)
         /\ tasks' = [tasks EXCEPT ![i].pc = "done",
                                   ![i].err = IF ok THEN "none" ELSE "errRec"]
    /\ UNCHANGED <<pbkPipeline, closed, deviceManager, pc,
                   startResult, closeResult, nStart, nClose, trace>>
    /\ UNCHANGED <<cfgVars, obsVars, wsVars>>

Task_recStart(i) ==
    /\ pc # "panic"
    /\ tasks[i].pc = "rec_start"
    /\ \E ok \in BOOLEAN :
         /\ recPipeline' = PipelineStart(recPipeline, ok)
         /\ tasks' = [tasks EXCEPT ![i].pc = "done",
                                   ![i].err = IF ok THEN "none" ELSE "errRec"]
    /\ UNCHANGED <<pbkPipeline, bufPipeline, closed, deviceManager, pc,
                   startResult, closeResult, nStart, nClose, trace>>
    /\ UNCHANGED <<cfgVars, obsVars, wsVars>>

(***************************************************************************)
(* Spec: the caller starts a new Buffer at most once, as the documented    *)
(* life cycle has it, and may call Close at any time, before Start too.    *)
(* SpecRestart: the caller may also call Start again on the same Buffer.   *)
(***************************************************************************)
Next ==
    \/ Start_setupDevices
    \/ Start_build
    \/ Start_pbk
    \/ Start_buf
    \/ Close_IsClosed
    \/ Close_pbk
    \/ Close_buf
    \/ Close_rec
    \/ Close_destroy
    \/ \E i \in TaskIds : Task_begin(i)
    \/ \E i \in TaskIds : Task_poll(i)
    \/ \E i \in TaskIds : Task_recStart(i)

Spec == Init /\ [][Next]_vars

NextRestart ==
    \/ Next
    \/ Restart_setupDevices

SpecRestart == Init /\ [][NextRestart]_vars

(***************************************************************************)
(* Buffer.SetChannels and Buffer.SetSampleRate, lines 121 and 125: plain   *)
(* assignments, whatever the state of the Buffer.                          *)
(***************************************************************************)
SetChannels(c) ==
    /\ pc = "idle"
    /\ channels' = c
    /\ UNCHANGED <<bufVars, codec, sampleRate, pbkStages, warnings, obsVars,
                   wsVars>>

SetSampleRate(r) ==
    /\ pc = "idle"
    /\ sampleRate' = r
    /\ UNCHANGED <<bufVars, codec, channels, pbkStages, warnings, obsVars,
                   wsVars>>

\* SpecConfig: a new Buffer, any codec, and a caller that also sets the
\* channels and the sample rate at any time.
InitConfig ==
    /\ InitBuffer
    /\ codec \in Codecs
    /\ InitNoObserver
    /\ InitNoWebsocket

NextConfig ==
    \/ Next
    \/ \E c \in ChannelValues : SetChannels(c)
    \/ \E r \in SampleRateValues : SetSampleRate(r)

SpecConfig == InitConfig /\ [][NextConfig]_vars

(***************************************************************************)
(* Buffer.Wait, lines 199-214: wait on playback, network-buffer, recorder; *)
(* the messages of the failed waits are joined by " : ".  ex gives the     *)
(* error each process exits with.  The message is kept as the sequence of  *)
(* its parts.                                                              *)
(***************************************************************************)
RECURSIVE Join(_, _)
\* strings.Join
Join(elems, sep) ==
    IF Len(elems) = 0 THEN <<>>
    ELSE IF Len(elems) = 1 THEN <<elems[1]>>
    ELSE <<elems[1], sep>> \o Join(Tail(elems), sep)

\* Pipeline.Wait: returns when the process has exited.
PipelineWait(p) == [p EXCEPT !.running = FALSE]

Wait_FirstErrorOnly(ex) ==
    IF ex.pbk # "nil"
    THEN [called |-> TRUE, waited |-> <<"pbk">>, isNil |-> FALSE,
          msg |-> <<ex.pbk>>]
    ELSE IF ex.buf # "nil"
    THEN [called |-> TRUE, waited |-> <<"pbk", "buf">>, isNil |-> FALSE,
          msg |-> <<ex.buf>>]
    ELSE [called |-> TRUE, waited |-> <<"pbk", "buf", "rec">>,
          isNil |-> ex.rec = "nil",
          msg |-> IF ex.rec = "nil" THEN <<>> ELSE <<ex.rec>>]

Wait(ex) ==
    LET e0 == <<>>
        e1 == IF ex.pbk # "nil" THEN Append(e0, ex.pbk) ELSE e0
        e2 == IF ex.buf # "nil" THEN Append(e1, ex.buf) ELSE e1
        e3 == IF ex.rec # "nil" THEN Append(e2, ex.rec) ELSE e2
    IN  [called |-> TRUE,
         waited |-> <<"pbk", "buf", "rec">>,
         isNil  |-> ~(Len(e3) > 0),
         msg    |-> IF Len(e3) > 0 THEN Join(e3, " : ") ELSE <<>>]

\* A call of Wait by the caller; a nil pipeline makes it panic.
Wait_call ==
    /\ pc = "idle"
    /\ IF pbkPipeline.nil
       THEN /\ pc' = "panic"
            /\ UNCHANGED <<pbkPipeline, bufPipeline, recPipeline, waitResult>>
       ELSE /\ pc' = pc
            /\ pbkPipeline' = PipelineWait(pbkPipeline)
            /\ bufPipeline' = PipelineWait(bufPipeline)
            /\ recPipeline' = PipelineWait(recPipeline)
            /\ waitResult' = Wait(exits)
    /\ UNCHANGED <<closed, deviceManager, startResult, closeResult, tasks,
                   nStart, nClose, trace, cfgVars, exits, captured,
                   errorsResult, wsVars>>

(***************************************************************************)
(* Buffer.Errors, lines 217-232: the captured errors of playback,          *)
(* network-buffer, recorder, in that order; nil when there is none.        *)
(***************************************************************************)
Errors_RecBeforeBuf(cap) ==
    LET e0 == <<>>
        e1 == IF cap.pbk # "nil" THEN Append(e0, cap.pbk) ELSE e0
        e2 == IF cap.rec # "nil" THEN Append(e1, cap.rec) ELSE e1
        e3 == IF cap.buf # "nil" THEN Append(e2, cap.buf) ELSE e2
    IN  [called |-> TRUE, isNil |-> ~(Len(e3) > 0), errs |-> e3]

Errors(cap) ==
    LET e0 == <<>>
        e1 == IF cap.pbk # "nil" THEN Append(e0, cap.pbk) ELSE e0
        e2 == IF cap.buf # "nil" THEN Append(e1, cap.buf) ELSE e1
        e3 == IF cap.rec # "nil" THEN Append(e2, cap.rec) ELSE e2
    IN  [called |-> TRUE, isNil |-> ~(Len(e3) > 0), errs |-> e3]

\* A call of Errors by the caller; a nil pipeline makes it panic.
Errors_call ==
    /\ pc = "idle"
    /\ IF pbkPipeline.nil
       THEN /\ pc' = "panic"
            /\ UNCHANGED errorsResult
       ELSE /\ pc' = pc
            /\ errorsResult' = Errors(captured)
    /\ UNCHANGED <<pbkPipeline, bufPipeline, recPipeline, closed,
                   deviceManager, startResult, closeResult, tasks, nStart,
                   nClose, trace, cfgVars, exits, captured, waitResult,
                   wsVars>>

(***************************************************************************)
(* SpecObserve: a running Buffer (Start returned nil and the goroutine     *)
(* started the recorder), any exit errors and captured errors of the three *)
(* processes, and a caller that calls Wait and Errors.                     *)
(***************************************************************************)
RunningPipeline ==
    [nil |-> FALSE, gen |-> 1, started |-> TRUE, running |-> TRUE,
     closed |-> FALSE]

RunningBuffer ==
    /\ pbkPipeline = RunningPipeline
    /\ bufPipeline = RunningPipeline
    /\ recPipeline = RunningPipeline
    /\ closed = FALSE
    /\ deviceManager =
          [sink |-> TRUE, source |-> TRUE, defaultSource |-> TRUE]
    /\ pc = "idle"
    /\ startResult = "nil"
    /\ closeResult = "none"
    /\ tasks = [i \in TaskIds |->
                  IF i = 1
                  THEN [pc |-> "done", pid |-> 1, tries |-> 0, checks |-> 0,
                        sawPort |-> TRUE, err |-> "none"]
                  ELSE NoTask]
    /\ nStart = 1
    /\ nClose = 0
    /\ trace = <<"Start", "AddSink", "AddSource", "SetDefaultSource", "build",
                 "pbk.Start", "buf.Start", "go", "Start:nil">>
    /\ codec = CodecOpus
    /\ channels = DefaultChannels
    /\ sampleRate = DefaultSampleRate
    /\ pbkStages = buildPlaybackPipeline(CodecOpus, DefaultChannels,
                                         DefaultSampleRate).stages
    /\ warnings = 0

ExitErrors ==
    [pbk : {"nil", "pbk exit status 1"},
     buf : {"nil", "buf exit status 1"},
     rec : {"nil", "rec exit status 1"}]

InitObserve ==
    /\ RunningBuffer
    /\ exits \in ExitErrors
    /\ captured \in ExitErrors
    /\ waitResult = NoWait
    /\ errorsResult = NoErrorsCall
    /\ InitNoWebsocket

NextObserve ==
    \/ Wait_call
    \/ Errors_call

SpecObserve == InitObserve /\ [][NextObserve]_vars

(***************************************************************************)
(* The websocket status loop, GetDesktopSessionStatusWebsocket.            *)
(*                                                                         *)
(* desktop is the session in the cluster: whether it exists, and its       *)
(* status.  A session goes from no pod to a pending pod, a running pod and *)
(* a running desktop, and can be deleted at any time.                      *)
(***************************************************************************)
PodRunning == "Running"

DesktopStates ==
    { [exists |-> TRUE, running |-> FALSE, podPhase |-> ""],
      [exists |-> TRUE, running |-> FALSE, podPhase |-> "Pending"],
      [exists |-> TRUE, running |-> FALSE, podPhase |-> PodRunning],
      [exists |-> TRUE, running |-> TRUE, podPhase |-> PodRunning] }

DesktopRank(d) ==
    IF d.running THEN 3
    ELSE IF d.podPhase = PodRunning THEN 2
    ELSE IF d.podPhase = "Pending" THEN 1 ELSE 0

\* The cluster changes the session.
Desktop_change ==
    /\ wsPc = "loop"
    /\ desktop.exists
    /\ \/ \E d \in DesktopStates :
            /\ DesktopRank(d) > DesktopRank(desktop)
            /\ desktop' = d
       \/ desktop' = [desktop EXCEPT !.exists = FALSE]
    /\ UNCHANGED <<bufVars, cfgVars, obsVars, wsPc, apiErrs, wsWrites, wsEnd>>

\* getDesktopForRequest: the Desktop object and the error of the lookup.
\* The object is filled only by a lookup that succeeds.
getDesktopForRequest(d, apiFails) ==
    IF apiFails
    THEN [desktop |-> [running |-> FALSE, podPhase |-> ""], err |-> "api"]
    ELSE IF ~d.exists
    THEN [desktop |-> [running |-> FALSE, podPhase |-> ""], err |-> "notfound"]
    ELSE [desktop |-> [running |-> d.running, podPhase |-> d.podPhase],
          err |-> "nil"]

toReturnStatus(d) == [running |-> d.running, podPhase |-> d.podPhase]

ErrorMessage(err) == [kind |-> "error", err |-> err, running |-> FALSE,
                      podPhase |-> ""]

StatusMessage(st) == [kind |-> "status", err |-> "nil", running |-> st.running,
                      podPhase |-> st.podPhase]

\* conn.Write of message m: ok tells whether it succeeds.
Written(m, ok) == [msg |-> m, ok |-> ok]

(***************************************************************************)
(* The body of the loop for one tick, lines 92-113.  r is the result of    *)
(* the lookup, w1 and w2 tell whether the write of the error and the write *)
(* of the status succeed.  The result is the writes made and the reason to *)
(* return, "none" to wait for the next tick.                               *)
(***************************************************************************)
StatusTick_ReturnOnAnyError(r, w1, w2) ==
    LET st == toReturnStatus(r.desktop)
    IN  IF r.err # "nil"
        THEN [writes |-> <<Written(ErrorMessage(r.err), w1)>>,
              end |-> IF ~w1 THEN "writeFailed"
                      ELSE IF r.err = "notfound" THEN "notFound" ELSE "error"]
        ELSE [writes |-> <<Written(StatusMessage(st), w2)>>,
              end |-> IF ~w2 THEN "writeFailed"
                      ELSE IF st.running /\ st.podPhase = PodRunning
                      THEN "running" ELSE "none"]

StatusTick(r, w1, w2) ==
    LET st == toReturnStatus(r.desktop)
        errWrites == IF r.err # "nil"
                     THEN <<Written(ErrorMessage(r.err), w1)>> ELSE <<>>
    IN  IF r.err # "nil" /\ ~w1
        THEN [writes |-> errWrites, end |-> "writeFailed"]
        ELSE IF r.err = "notfound"
        THEN [writes |-> errWrites, end |-> "notFound"]
        ELSE IF ~w2
        THEN [writes |-> errWrites \o <<Written(StatusMessage(st), w2)>>,
              end |-> "writeFailed"]
        ELSE IF st.running /\ st.podPhase = PodRunning
        THEN [writes |-> errWrites \o <<Written(StatusMessage(st), w2)>>,
              end |-> "running"]
        ELSE [writes |-> errWrites \o <<Written(StatusMessage(st), w2)>>,
              end |-> "none"]

\* One tick of the ticker, line 90; a return closes the connection
\* (line 87).  At most MaxApiErrors lookups fail with an API error.
Ws_tick ==
    /\ wsPc = "loop"
    /\ \E apiFails \in BOOLEAN, w1 \in BOOLEAN, w2 \in BOOLEAN :
         /\ apiFails => apiErrs < MaxApiErrors
         /\ LET t == StatusTick(getDesktopForRequest(desktop, apiFails), w1, w2)
            IN  /\ wsWrites' = t.writes
                /\ wsEnd' = t.end
                /\ wsPc' = IF t.end = "none" THEN "loop" ELSE "done"
         /\ apiErrs' = IF apiFails THEN apiErrs + 1 ELSE apiErrs
    /\ UNCHANGED <<bufVars, cfgVars, obsVars, desktop>>

\* SpecWebsocket: a client opens the status websocket of a session.
InitWebsocket ==
    /\ InitBuffer
    /\ codec = CodecOpus
    /\ InitNoObserver
    /\ wsPc = "loop"
    /\ desktop \in DesktopStates \cup
                   {[exists |-> FALSE, running |-> FALSE, podPhase |-> ""]}
    /\ apiErrs = 0
    /\ wsWrites = <<>>
    /\ wsEnd = "none"

NextWebsocket ==
    \/ Ws_tick
    \/ Desktop_change

SpecWebsocket == InitWebsocket /\ [][NextWebsocket]_vars

\* The ticker fires every two seconds as long as the loop runs.
SpecWebsocketFair == SpecWebsocket /\ WF_vars(Ws_tick)

(***************************************************************************)
(* Vocabulary of the properties.                                           *)
(***************************************************************************)
TraceHas(e) == \E k \in 1..Len(trace) : trace[k] = e

Count(e) == Cardinality({k \in 1..Len(trace) : trace[k] = e})

IsPrefix(s, t) == Len(s) <= Len(t) /\ SubSeq(t, 1, Len(s)) = s

\* The part of the trace that belongs to the last Close call.
LastCloseCall ==
    IF ~TraceHas("Close") THEN <<>>
    ELSE LET k == CHOOSE n \in 1..Len(trace) :
                    /\ trace[n] = "Close"
                    /\ \A m \in n+1..Len(trace) : trace[m] # "Close"
         IN  SubSeq(trace, k, Len(trace))

ProvisioningErrors == {"errSink", "errSource", "errDefault"}

CloseErrors == {"errPbk", "errBuf", "errRec"}

TaskActive(i) == tasks[i].pc \in {"begin", "poll", "rec_start"}

NoTaskLaunched == \A i \in TaskIds : tasks[i].pc = "none"

AllPipelinesClosed ==
    pbkPipeline.closed /\ bufPipeline.closed /\ recPipeline.closed

DevicesProvisioned ==
    deviceManager.sink /\ deviceManager.source /\ deviceManager.defaultSource

\* C1: the readiness poll gives up after exactly Retries unsuccessful
\* checks: a goroutine that has made Retries checks without finding the
\* port has returned the retry-limit error and is done.
C1_GivesUpAfterRetries ==
    \A i \in TaskIds :
        tasks[i].checks >= Retries =>
            tasks[i].pc = "done" /\ tasks[i].err = "retryLimit"

\* C2: Close is idempotent: once a Close has returned nil, every further
\* Close returns nil without closing a pipeline or destroying the devices
\* again, and Destroy is called at most once.
C2_CloseIdempotent ==
    /\ Count("Destroy") <= 1
    /\ \A k \in 1..Len(trace) :
          trace[k] = "Close:nil" =>
              \A j \in k+1..Len(trace) : trace[j] \in {"Close", "Close:nil"}

C2_Witness == Count("Close:nil") >= 2 /\ Count("Destroy") = 1

\* C3: on a started Buffer IsClosed() is true exactly when the three
\* pipelines are closed and the closed flag is set; it is false in every
\* intermediate state of a Close.
C3_IsClosedIffAll ==
    ~pbkPipeline.nil =>
        /\ IsClosed <=> (AllPipelinesClosed /\ closed)
        /\ pc \in {"close_pbk", "close_buf", "close_rec", "close_destroy"}
              => ~IsClosed

C3_Witness == pc = "close_destroy" /\ AllPipelinesClosed /\ ~IsClosed

\* C4: the recorder pipeline is started only after the playback and the
\* network-buffer pipeline were started and a poll found the port; the
\* pipelines are built and started only after setupDevices succeeded.
C4_RecorderAfterPort ==
    /\ recPipeline.started =>
          /\ pbkPipeline.started
          /\ bufPipeline.started
          /\ \E i \in TaskIds : tasks[i].sawPort
    /\ \A i \in TaskIds :
          tasks[i].pc = "rec_start" =>
              pbkPipeline.started /\ bufPipeline.started /\ tasks[i].sawPort
    /\ \A k \in 1..Len(trace) :
          trace[k] \in {"build", "pbk.Start", "pbk.Start!",
                        "buf.Start", "buf.Start!"} =>
              \E j \in 1..k-1 : trace[j] = "SetDefaultSource"

C4_Witness == recPipeline.started /\ recPipeline.running

\* C5: when a provisioning step fails, Start returns that error, makes no
\* later provisioning call, builds no pipeline, starts no process and
\* launches no goroutine.
C5_ProvisioningAborts ==
    startResult \in ProvisioningErrors =>
        /\ pbkPipeline.nil /\ bufPipeline.nil /\ recPipeline.nil
        /\ NoTaskLaunched
        /\ \A e \in {"build", "pbk.Start", "pbk.Start!", "buf.Start",
                     "buf.Start!", "go", "SetDefaultSource"} : ~TraceHas(e)
        /\ startResult = "errSink" =>
              /\ TraceHas("AddSink!")
              /\ \A e \in {"AddSource", "AddSource!", "SetDefaultSource!"} :
                    ~TraceHas(e)
              /\ deviceManager = NewDeviceManager
        /\ startResult = "errSource" =>
              /\ TraceHas("AddSink") /\ TraceHas("AddSource!")
              /\ ~TraceHas("SetDefaultSource!")
        /\ startResult = "errDefault" =>
              TraceHas("AddSource") /\ TraceHas("SetDefaultSource!")

C5_Witness == startResult = "errSource" /\ deviceManager.sink /\ pc = "idle"

\* C6: after Start failed with a provisioning error the caller can call
\* Close: Close does not crash, and once it has returned the devices are
\* released.
C6_CloseAfterProvisioningError ==
    startResult \in ProvisioningErrors =>
        /\ pc # "panic"
        /\ (nClose > 0 /\ pc = "idle") => deviceManager = NewDeviceManager

\* C7: a failed playback start ends Start before the network-buffer
\* pipeline is started, a failed playback or network-buffer start ends it
\* before the goroutine is launched; the devices stay provisioned until a
\* Close destroys them.
C7_StartErrorAborts ==
    /\ startResult = "errPbk" =>
          /\ ~pbkPipeline.started /\ ~bufPipeline.started
          /\ ~TraceHas("buf.Start") /\ ~TraceHas("buf.Start!")
    /\ startResult \in {"errPbk", "errBuf"} =>
          /\ NoTaskLaunched
          /\ ~TraceHas("go")
          /\ ~recPipeline.started
          /\ ~TraceHas("Destroy") => DevicesProvisioned
    /\ startResult = "errBuf" => pbkPipeline.started /\ ~bufPipeline.started
    /\ \A k \in 1..Len(trace) :
          trace[k] = "Destroy" => \E j \in 1..k-1 : trace[j] = "Close"

C7_Witness ==
    startResult = "errBuf" /\ pc = "idle" /\ pbkPipeline.running
        /\ DevicesProvisioned

\* C8: Close can be called in every state, before any Start too, and
\* completes; closed is terminal: once IsClosed() is true, no later step
\* makes it false or leaves a pipeline process running.
C8_CloseTerminal ==
    /\ [](pc # "panic")
    /\ [][(~pbkPipeline.nil /\ IsClosed) =>
             /\ IsClosed'
             /\ ~pbkPipeline'.running
             /\ ~bufPipeline'.running
             /\ ~recPipeline'.running]_vars

\* The three pipelines as the data model classes them.
PipelineClass(p) ==
    IF p.closed THEN "closed" ELSE IF p.started THEN "started" ELSE "unstarted"

Uniform ==
    /\ PipelineClass(pbkPipeline) = PipelineClass(bufPipeline)
    /\ PipelineClass(bufPipeline) = PipelineClass(recPipeline)

InProgress ==
    \/ pc \notin {"idle", "panic"}
    \/ \E i \in TaskIds : TaskActive(i)

C10_CloseOrder ==
    /\ \E full \in {<<"Close", "panic">>,
                    <<"Close", "Close:nil">>,
                    <<"Close", "pbk.Close!", "Close:err">>,
                    <<"Close", "pbk.Close", "buf.Close!", "Close:err">>,
                    <<"Close", "pbk.Close", "buf.Close", "rec.Close!",
                      "Close:err">>,
                    <<"Close", "pbk.Close", "buf.Close", "rec.Close",
                      "Destroy", "Close:nil">>} :
          IsPrefix(LastCloseCall, full)
    /\ (pc = "idle" /\ closeResult = "errPbk") =>
          ~pbkPipeline.closed /\ ~bufPipeline.closed /\ ~recPipeline.closed
    /\ (pc = "idle" /\ closeResult = "errBuf") =>
          pbkPipeline.closed /\ ~bufPipeline.closed /\ ~recPipeline.closed
    /\ (pc = "idle" /\ closeResult = "errRec") =>
          pbkPipeline.closed /\ bufPipeline.closed /\ ~recPipeline.closed
    /\ closeResult \in CloseErrors => ~closed /\ ~TraceHas("Destroy")
    /\ closed <=> TraceHas("Destroy")
    /\ closed => AllPipelinesClosed

C10_Witness ==
    /\ pc = "idle" /\ closeResult = "errBuf"
    /\ pbkPipeline.closed /\ recPipeline.running /\ DevicesProvisioned

ReadErrors == {"openErr", "readErr", "closeErr"}

\* C11: Start returns nil once the playback and the network-buffer
\* pipeline are started, before the goroutine has polled; an error of the
\* goroutine (poll error, failed recorder start) leaves Start's result, the
\* two running pipelines and the devices as they are.
C11_StartIndependentOfRecorder ==
    /\ startResult = "nil" => pbkPipeline.started /\ bufPipeline.started
    /\ \A i \in TaskIds : tasks[i].pc # "none" => startResult = "nil"
    /\ \A i \in TaskIds :
          (tasks[i].pc = "done" /\ tasks[i].err # "none" /\ ~TraceHas("Close"))
              => /\ pbkPipeline.running /\ bufPipeline.running
                 /\ ~pbkPipeline.closed /\ ~bufPipeline.closed
                 /\ DevicesProvisioned
                 /\ ~closed

C11_Witness ==
    /\ tasks[1].pc = "done" /\ tasks[1].err = "errRec"
    /\ startResult = "nil"
    /\ pbkPipeline.running /\ bufPipeline.running /\ DevicesProvisioned

NoPipelineCloseFailed ==
    \A e \in {"pbk.Close!", "buf.Close!", "rec.Close!"} : ~TraceHas(e)

\* C13: Start, then Close while the goroutine may still be polling: when
\* the pipeline closes succeed, Close returns nil, the devices are
\* destroyed and IsClosed() is true, however the goroutine interleaves.
C13_StartThenClose ==
    (startResult = "nil" /\ nClose >= 1 /\ pc = "idle" /\ NoPipelineCloseFailed)
        => /\ closeResult = "nil"
           /\ IsClosed
           /\ deviceManager = NewDeviceManager
           /\ Count("Destroy") = 1

C13_Witness ==
    /\ startResult = "nil" /\ nClose = 1 /\ pc = "idle"
    /\ closeResult = "nil" /\ IsClosed
    /\ tasks[1].pc = "poll"

\* C17: a failed open, read or close of the connection table ends the poll
\* at once with that error: the goroutine is done and polls no more, the
\* recorder is never started, playback and network-buffer keep running.
C17_ReadErrorStopsPoll ==
    /\ [](\A i \in TaskIds :
            tasks[i].err \in ReadErrors =>
                /\ tasks[i].pc = "done"
                /\ ~tasks[i].sawPort
                /\ ~recPipeline.started
                /\ ~TraceHas("Close") =>
                      pbkPipeline.running /\ bufPipeline.running)
    /\ [][\A i \in TaskIds :
            tasks[i].err \in ReadErrors => tasks'[i] = tasks[i]]_vars

C17_Witness ==
    /\ tasks[1].err = "closeErr" /\ tasks[1].pc = "done"
    /\ tasks[1].checks >= 2
    /\ pbkPipeline.running /\ bufPipeline.running /\ ~recPipeline.started

\* C18: once Close has returned nil (devices destroyed, flag set), no
\* pipeline process is started or left running.
C18_NoProcessAfterClose ==
    (closed /\ TraceHas("Destroy")) =>
        /\ ~pbkPipeline.running
        /\ ~bufPipeline.running
        /\ ~recPipeline.running

\* C12: channels and sample rate are immutable once Start has been
\* invoked: no step after the first Start call changes them.
C12_ConfigImmutableAfterStart ==
    [][nStart > 0 => (channels' = channels /\ sampleRate' = sampleRate)]_vars

KnownCodecs == {CodecOpus, CodecVorbis, CodecMP3}

OpusStages == << <<"cutter">>, <<"opusenc">>, <<"webmmux">> >>

\* C14: the playback pipeline built for a codec is the pulse source on the
\* sink monitor, then vorbisenc + oggmux for vorbis, lamemp3enc for mp3,
\* cutter + opusenc + webmmux for opus and for every other value, then the
\* sink to fd 1; one warning is logged for a value that is none of opus,
\* vorbis, mp3 and none otherwise.
C14_PlaybackStages ==
    /\ pbkStages = <<>> => warnings = 0
    /\ pbkStages # <<>> =>
          /\ Len(pbkStages) >= 3
          /\ Head(pbkStages)[1] = "pulsesrc"
          /\ Head(pbkStages)[2] = "kvdi.monitor"
          /\ pbkStages[Len(pbkStages)] = <<"fdsink", 1>>
          /\ SubSeq(pbkStages, 2, Len(pbkStages) - 1) =
                IF codec = "vorbis" THEN << <<"vorbisenc">>, <<"oggmux">> >>
                ELSE IF codec = "mp3" THEN << <<"lamemp3enc">> >>
                ELSE OpusStages
          /\ warnings = IF codec \in {"opus", "vorbis", "mp3"} THEN 0 ELSE 1

C14_Witness ==
    /\ codec = "raw" /\ warnings = 1
    /\ SubSeq(pbkStages, 2, Len(pbkStages) - 1) = OpusStages

\* The errors of the pipelines that have one, in the order playback,
\* network-buffer, recorder.
Failing(e) == SelectSeq(<<e.pbk, e.buf, e.rec>>, LAMBDA m : m # "nil")

\* C15: Wait waits on playback, network-buffer and recorder in that order,
\* whatever the earlier waits return; it returns nil exactly when all three
\* return nil, and otherwise the messages of the failed ones, in that
\* order, joined by " : ".
C15_WaitAggregates ==
    waitResult.called =>
        /\ waitResult.waited = <<"pbk", "buf", "rec">>
        /\ waitResult.isNil <=> (exits = NoErrors)
        /\ LET f == Failing(exits)
           IN  waitResult.msg =
                  CASE Len(f) = 0 -> <<>>
                    [] Len(f) = 1 -> <<f[1]>>
                    [] Len(f) = 2 -> <<f[1], " : ", f[2]>>
                    [] Len(f) = 3 -> <<f[1], " : ", f[2], " : ", f[3]>>

C15_Witness ==
    /\ waitResult.called
    /\ waitResult.msg = <<"pbk exit status 1", " : ", "buf exit status 1",
                          " : ", "rec exit status 1">>

\* C16: Errors returns nil when no pipeline has a captured error, otherwise
\* the captured errors of the unhealthy pipelines in the order playback,
\* network-buffer, recorder; it changes nothing else.
C16_ErrorsSnapshot ==
    /\ [](errorsResult.called =>
            /\ errorsResult.isNil <=> (captured = NoErrors)
            /\ errorsResult.errs = Failing(captured)
            /\ Len(errorsResult.errs) =
                  Cardinality({p \in {"pbk", "buf", "rec"} :
                                  captured[p] # "nil"}))
    /\ [][errorsResult' # errorsResult =>
             UNCHANGED <<bufVars, cfgVars, exits, captured, waitResult,
                         wsVars>>]_vars

C16_Witness ==
    /\ errorsResult.called
    /\ errorsResult.errs = <<"buf exit status 1", "rec exit status 1">>
    /\ captured.pbk = "nil"

\* What ends the status loop on a tick: a write that failed, a not-found
\* error that was written, or a written status that is running with pod
\* phase Running.
EndsLoop(ws) ==
    \E k \in 1..Len(ws) :
        \/ ~ws[k].ok
        \/ ws[k].msg.kind = "error" /\ ws[k].msg.err = "notfound"
        \/ /\ ws[k].msg.kind = "status"
           /\ ws[k].msg.running
           /\ ws[k].msg.podPhase = PodRunning

DesktopIsRunning ==
    desktop.exists /\ desktop.running /\ desktop.podPhase = PodRunning

====
